---- MODULE Spec2Model ----
(***************************************************************************)
(* A model of the file-backed Bloom filter of                              *)
(* src/HIBP_data/Bloom_Filter_Creation/bloom_tool.py: the BloomFilter      *)
(* class (constructor, _open, _create, _get_hashes, add, update, contains, *)
(* sync, close) over one filter path, the host it runs on, and the         *)
(* processes that hold handles on the path.                                *)
(*                                                                         *)
(* The data region of the file is kept as the set of the bit positions     *)
(* that are 1 (position h lives in byte h \div 8 under mask 2^(h % 8)), so  *)
(* that the real alignments (4096, 16384, 65536) can be used.  The two     *)
(* hash primitives (mmh3.hash and md5) are library code: they are modelled *)
(* as fixed tables over a small output range (HashMod).                    *)
(***************************************************************************)
EXTENDS Integers, Sequences, FiniteSets, TLC

(* ---------------- program constants ---------------- *)
DEFAULT_ALIGNMENT == 16384
MIN_ALIGNMENT == 4096
DEFAULT_HASH_FUNC == "md5"
FAST_HASH_FUNC == "murmur3"
\* len((json.dumps(hdr) + "\n")) minus the digits of m, k, offset, size and
\* the characters of hash_func_name
HdrFixedLen == 59

(* ---------------- bounds of the model ---------------- *)
NItems == 2
NWorkers == 2
MaxChunk == 2
HashMod == 16
\* the input of a load run has at most MaxLines lines, cut into chunks of
\* ChunkSize lines (WORKER_CHUNK_SIZE, 100000 in the program)
MaxLines == 2
ChunkSize == 1
\* at most MaxApplied chunks are applied one after another
MaxApplied == 2

Items == 1..NItems
Procs == 0..NWorkers

NameSet == {DEFAULT_HASH_FUNC, FAST_HASH_FUNC}

(* Optional[int]: None is <<>>, the integer x is <<x>> *)
None == <<>>
Some(x) == <<x>>
NoName == "None"

(* ---------------- the host ---------------- *)
\* sysconf: what os.sysconf("SC_PAGESIZE") returns (None: it raises),
\* gran: mmap.ALLOCATIONGRANULARITY, murmur: _murmur_available
Hosts ==
  { [sysconf |-> Some(4096), gran |-> 4096, murmur |-> TRUE],
    [sysconf |-> Some(4096), gran |-> 4096, murmur |-> FALSE],
    [sysconf |-> None, gran |-> 65536, murmur |-> TRUE] }

get_alignment(hst) ==
  IF hst.sysconf = None
    THEN DEFAULT_ALIGNMENT
    ELSE LET pagesize == hst.sysconf[1]
             a == IF pagesize > 0 THEN pagesize ELSE DEFAULT_ALIGNMENT
         IN  IF a > MIN_ALIGNMENT THEN a ELSE MIN_ALIGNMENT

(* ---------------- bytes and bits ---------------- *)
RECURSIVE Pow2(_)
Pow2(n) == IF n = 0 THEN 1 ELSE 2 * Pow2(n - 1)

RECURSIVE BitOr(_, _)
BitOr(a, b) ==
  IF a = 0 THEN b
  ELSE IF b = 0 THEN a
  ELSE (IF a % 2 = 1 \/ b % 2 = 1 THEN 1 ELSE 0) + 2 * BitOr(a \div 2, b \div 2)

RECURSIVE BitAnd(_, _)
BitAnd(a, b) ==
  IF a = 0 \/ b = 0 THEN 0
  ELSE (IF a % 2 = 1 /\ b % 2 = 1 THEN 1 ELSE 0) + 2 * BitAnd(a \div 2, b \div 2)

RECURSIVE SumBits(_, _, _)
SumBits(data, idx, o) ==
  IF o > 7 THEN 0
  ELSE (IF idx * 8 + o \in data THEN Pow2(o) ELSE 0) + SumBits(data, idx, o + 1)

\* self.bits[byte_idx]
GetByte(data, idx) == SumBits(data, idx, 0)

\* self.bits[byte_idx] = val
SetByte(data, idx, val) ==
  {b \in data : b \div 8 # idx}
    \cup {idx * 8 + o : o \in {x \in 0..7 : BitAnd(val, Pow2(x)) # 0}}

(* ---------------- the hash primitives ---------------- *)
\* mmh3.hash(item_bytes, seed=seed, signed=False)
Mmh3(item, seed) == (item * 7 + seed * 3 + 2) % HashMod

\* a 16-byte md5 digest: <<digest[:8], digest[8:]>>, each half read as an
\* unsigned little-endian integer
Md5OfItem(item) == <<(item * 3 + 1) % HashMod, (item * 5 + 4) % HashMod>>
Md5OfDigest(d) == <<(d[1] * 5 + d[2] + 3) % HashMod, (d[1] + d[2] * 3 + 1) % HashMod>>

(* ---------------- the file at the filter path ---------------- *)
BadHdr(kind) ==
  [kind |-> kind, m |-> 0, k |-> 0, size |-> 0, offset |-> 0, hash_func_name |-> NoName]

NoFile ==
  [exists |-> FALSE, hdr |-> BadHdr("missing"), linelen |-> 0, len |-> 0,
   data |-> {}, origin |-> "none", dirty |-> FALSE]

RECURSIVE Digits(_)
Digits(n) == IF n < 10 THEN 1 ELSE 1 + Digits(n \div 10)

\* len(hdr_bytes) for hdr_bytes = (json.dumps(hdr) + "\n").encode("ascii")
HdrLen(m, k, offset, size, hname) ==
  HdrFixedLen + Digits(m) + Digits(k) + Digits(offset) + Digits(size)
    + (IF hname = FAST_HASH_FUNC THEN 7 ELSE 3)

\* Files this program did not write and may find at the path: the first line
\* is missing, is no JSON header, or holds a header with these fields
\* ("absent": no hash_func_name key, "null": JSON null).
ForeignFiles ==
  { [exists |-> TRUE, hdr |-> BadHdr(kd), linelen |-> 0, len |-> ln,
     data |-> {}, origin |-> "foreign", dirty |-> FALSE]
      : kd \in {"missing", "garbage"}, ln \in {0, 8192} }
  \cup
  { [exists |-> TRUE,
     hdr |-> [kind |-> "ok", m |-> mm, k |-> kk, size |-> sz, offset |-> off,
              hash_func_name |-> hn],
     linelen |-> ll, len |-> off + sz + dl, data |-> {}, origin |-> "foreign",
     dirty |-> FALSE]
      : mm \in {0, 12}, kk \in {-1, 2}, sz \in {0, 1}, off \in {0, 100, 4096},
        hn \in {"md5", "murmur3", "absent", "null"}, ll \in {72}, dl \in {-1, 0} }

(* ---------------- the BloomFilter object ---------------- *)
\* the fields __init__ sets before it looks at the path
NewSelf(args, hst) ==
  [m |-> args.m, k |-> args.k, readonly |-> args.readonly,
   hash_func_name |-> args.hash_func_name, size |-> None, offset |-> None,
   alignment |-> get_alignment(hst), fd |-> FALSE, bits |-> FALSE,
   via |-> ""]   \* via (not a field of the class): how the object was mapped

\* BloomFilter.close
close(self) == [self EXCEPT !.bits = FALSE, !.fd = FALSE]

Ok == [exc |-> "", why |-> "", ret |-> "None"]
Raise(exc, why) == [exc |-> exc, why |-> why, ret |-> ""]
Return(v) == [exc |-> "", why |-> "", ret |-> v]

\* mmap.mmap(fd, length, offset=offset): the offset must be a multiple of the
\* allocation granularity and the mapped range must lie in the file
MmapOk(hst, f, offset, size) ==
  offset % hst.gran = 0 /\ size > 0 /\ offset + size <= f.len

\* _open, "Extract and validate header values": the fields taken from the header
ReadHeader_kFromM(self, hdr, hst) ==
  LET hn == IF hdr.hash_func_name = "absent"
              THEN (IF hst.murmur THEN FAST_HASH_FUNC ELSE DEFAULT_HASH_FUNC)
              ELSE IF hdr.hash_func_name = "null" THEN NoName
              ELSE hdr.hash_func_name
  IN  [self EXCEPT !.m = Some(hdr.m), !.k = Some(hdr.m),
                   !.size = Some(hdr.size), !.offset = Some(hdr.offset),
                   !.hash_func_name = hn, !.alignment = hdr.offset]

ReadHeader_keepArgHash(self, hdr, hst) ==
  LET hn == IF self.hash_func_name # NoName THEN self.hash_func_name
            ELSE IF hdr.hash_func_name = "absent"
              THEN (IF hst.murmur THEN FAST_HASH_FUNC ELSE DEFAULT_HASH_FUNC)
            ELSE IF hdr.hash_func_name = "null" THEN NoName
            ELSE hdr.hash_func_name
  IN  [self EXCEPT !.m = Some(hdr.m), !.k = Some(hdr.k),
                   !.size = Some(hdr.size), !.offset = Some(hdr.offset),
                   !.hash_func_name = hn, !.alignment = hdr.offset]

ReadHeader(self, hdr, hst) ==
  LET hn == IF hdr.hash_func_name = "absent"
              THEN (IF hst.murmur THEN FAST_HASH_FUNC ELSE DEFAULT_HASH_FUNC)
              ELSE IF hdr.hash_func_name = "null" THEN NoName
              ELSE hdr.hash_func_name
  IN  [self EXCEPT !.m = Some(hdr.m), !.k = Some(hdr.k),
                   !.size = Some(hdr.size), !.offset = Some(hdr.offset),
                   !.hash_func_name = hn, !.alignment = hdr.offset]

\* _open's checks of the decoded header against the file: the reason of the
\* IOError it raises, "" when it raises none
OpenChecks_noLength(self, file_size) ==
  IF self.m[1] <= 0 \/ self.k[1] <= 0 \/ self.size[1] <= 0 \/ self.offset[1] <= 0
    THEN "invalid_params"
  ELSE ""

OpenChecks(self, file_size) ==
  IF self.m[1] <= 0 \/ self.k[1] <= 0 \/ self.size[1] <= 0 \/ self.offset[1] <= 0
    THEN "invalid_params"
  ELSE IF file_size < self.offset[1] + self.size[1]
    THEN "file_too_small"
  ELSE ""

\* BloomFilter._open: the object and the exception it ends with ("" = none)
BloomFilter_open(self, f, hst) ==
  IF f.hdr.kind = "missing"
    THEN [self |-> close(self), out |-> Raise("IOError", "header_missing")]
  ELSE IF f.hdr.kind = "garbage"
    THEN [self |-> close(self), out |-> Raise("IOError", "header_unparseable")]
  ELSE
    LET s1 == ReadHeader(self, f.hdr, hst)
        bad == OpenChecks(s1, f.len)
    IN  IF bad # ""
          THEN [self |-> close(s1), out |-> Raise("IOError", bad)]
        ELSE IF ~MmapOk(hst, f, s1.offset[1], s1.size[1])
          THEN [self |-> close(s1), out |-> Raise("IOError", "mmap")]
        ELSE [self |-> [s1 EXCEPT !.fd = TRUE, !.bits = TRUE], out |-> Ok]

\* what the environment can do to a create: nothing, or fail one of its calls
CreateFaults == {"none", "open", "write", "extend", "mmap"}

\* the data-region size _create computes
CreateSize_floor(m, alignment) == (((m + 7) \div 8) \div alignment) * alignment

CreateSize(m, alignment) ==
  ((((m + 7) \div 8) + alignment - 1) \div alignment) * alignment

\* BloomFilter._create: the object, the exception and the file it leaves
BloomFilter_create(self, m, k, hname, f, hst, fault) ==
  IF m <= 0 \/ k <= 0
    THEN [self |-> self, out |-> Raise("ValueError", "m_k_not_positive"), file |-> f]
  ELSE
    LET off == self.alignment
        sz == CreateSize(m, self.alignment)
        s1 == [self EXCEPT !.m = Some(m), !.k = Some(k), !.hash_func_name = hname,
                           !.offset = Some(off), !.size = Some(sz)]
        hdr_len == HdrLen(m, k, off, sz, hname)
        hdr == [kind |-> "ok", m |-> m, k |-> k, size |-> sz, offset |-> off,
                hash_func_name |-> hname]
        \* open(filename, "w+b") creates the file or truncates it to nothing
        opened == [exists |-> TRUE, hdr |-> BadHdr("missing"), linelen |-> 0,
                   len |-> 0, data |-> {}, origin |-> "create", dirty |-> FALSE]
        padded == [opened EXCEPT !.hdr = hdr, !.linelen = hdr_len, !.len = off]
        full == [padded EXCEPT !.len = off + sz]
    IN  IF sz <= 0
          THEN [self |-> s1, out |-> Raise("ValueError", "size_not_positive"), file |-> f]
        ELSE IF hdr_len > off
          THEN [self |-> s1, out |-> Raise("RuntimeError", "header_too_long"), file |-> f]
        ELSE IF fault = "open"
          THEN [self |-> close(s1), out |-> Raise("IOError", "create_open"), file |-> f]
        ELSE IF fault = "write"
          THEN [self |-> close(s1), out |-> Raise("IOError", "create_write"), file |-> opened]
        ELSE IF fault = "extend"
          THEN [self |-> close(s1), out |-> Raise("IOError", "create_extend"), file |-> padded]
        ELSE IF fault = "mmap" \/ ~MmapOk(hst, full, off, sz)
          THEN [self |-> close(s1), out |-> Raise("IOError", "create_mmap"), file |-> full]
        ELSE [self |-> [s1 EXCEPT !.fd = TRUE, !.bits = TRUE, !.via = "create"],
              out |-> Ok, file |-> full]

\* __init__, "Validate parameters if not in readonly mode and parameters were
\* provided": the reason of the ValueError it raises, "" when it raises none
ParamMismatch_noK(args, self) ==
  IF args.readonly THEN ""
  ELSE IF args.m # None /\ args.m # self.m THEN "m_mismatch"
  ELSE IF args.hash_func_name # NoName /\ self.hash_func_name # NoName
          /\ args.hash_func_name # self.hash_func_name THEN "hash_mismatch"
  ELSE ""

ParamMismatch(args, self) ==
  IF args.readonly THEN ""
  ELSE IF args.m # None /\ args.m # self.m THEN "m_mismatch"
  ELSE IF args.k # None /\ args.k # self.k THEN "k_mismatch"
  ELSE IF args.hash_func_name # NoName /\ self.hash_func_name # NoName
          /\ args.hash_func_name # self.hash_func_name THEN "hash_mismatch"
  ELSE ""

\* BloomFilter.__init__ from the existence check on: the object, the
\* exception and the file it leaves
BloomFilter_init_createsOverFile(self, args, file_exists, f, hst, fault) ==
  IF file_exists /\ (args.readonly \/ args.m = None \/ args.k = None)
    THEN LET r == BloomFilter_open(self, f, hst)
             s == r.self
             bad == ParamMismatch(args, s)
         IN  IF r.out.exc # "" THEN [self |-> close(s), out |-> r.out, file |-> f]
             ELSE IF bad # ""
               THEN [self |-> close(s), out |-> Raise("ValueError", bad), file |-> f]
             ELSE [self |-> [s EXCEPT !.via = "open"], out |-> Ok, file |-> f]
  ELSE IF args.readonly
    THEN [self |-> self, out |-> Raise("FileNotFoundError", "not_found"), file |-> f]
  ELSE IF args.m = None \/ args.k = None
    THEN [self |-> self, out |-> Raise("ValueError", "m_k_required"), file |-> f]
  ELSE IF args.m[1] <= 0 \/ args.k[1] <= 0
    THEN [self |-> self, out |-> Raise("ValueError", "m_k_not_positive"), file |-> f]
  ELSE
    LET hn0 == IF self.hash_func_name = NoName
                 THEN (IF hst.murmur THEN FAST_HASH_FUNC ELSE DEFAULT_HASH_FUNC)
                 ELSE self.hash_func_name
        hn == IF hn0 = FAST_HASH_FUNC /\ ~hst.murmur THEN DEFAULT_HASH_FUNC ELSE hn0
        r == BloomFilter_create([self EXCEPT !.hash_func_name = hn],
                                args.m[1], args.k[1], hn, f, hst, fault)
    IN  IF r.out.exc # "" THEN [self |-> close(r.self), out |-> r.out, file |-> r.file]
        ELSE r

BloomFilter_init(self, args, file_exists, f, hst, fault) ==
  IF file_exists
    THEN LET r == BloomFilter_open(self, f, hst)
             s == r.self
             bad == ParamMismatch(args, s)
         IN  IF r.out.exc # "" THEN [self |-> close(s), out |-> r.out, file |-> f]
             ELSE IF bad # ""
               THEN [self |-> close(s), out |-> Raise("ValueError", bad), file |-> f]
             ELSE [self |-> [s EXCEPT !.via = "open"], out |-> Ok, file |-> f]
  ELSE IF args.readonly
    THEN [self |-> self, out |-> Raise("FileNotFoundError", "not_found"), file |-> f]
  ELSE IF args.m = None \/ args.k = None
    THEN [self |-> self, out |-> Raise("ValueError", "m_k_required"), file |-> f]
  ELSE IF args.m[1] <= 0 \/ args.k[1] <= 0
    THEN [self |-> self, out |-> Raise("ValueError", "m_k_not_positive"), file |-> f]
  ELSE
    LET hn0 == IF self.hash_func_name = NoName
                 THEN (IF hst.murmur THEN FAST_HASH_FUNC ELSE DEFAULT_HASH_FUNC)
                 ELSE self.hash_func_name
        hn == IF hn0 = FAST_HASH_FUNC /\ ~hst.murmur THEN DEFAULT_HASH_FUNC ELSE hn0
        r == BloomFilter_create([self EXCEPT !.hash_func_name = hn],
                                args.m[1], args.k[1], hn, f, hst, fault)
    IN  IF r.out.exc # "" THEN [self |-> close(r.self), out |-> r.out, file |-> r.file]
        ELSE r

(* ---------------- indexing ---------------- *)
RECURSIVE Md5Chain_noMod(_, _, _)
Md5Chain_noMod(current_hash, m, n) ==
  IF n = 0 THEN <<>>
  ELSE <<current_hash[2]>> \o Md5Chain_noMod(Md5OfDigest(current_hash), m, n - 1)

RECURSIVE Md5Chain_firstHalf(_, _, _)
Md5Chain_firstHalf(current_hash, m, n) ==
  IF n = 0 THEN <<>>
  ELSE <<current_hash[1] % m>> \o Md5Chain_firstHalf(Md5OfDigest(current_hash), m, n - 1)

RECURSIVE Md5Chain(_, _, _)
Md5Chain(current_hash, m, n) ==
  IF n = 0 THEN <<>>
  ELSE <<current_hash[2] % m>> \o Md5Chain(Md5OfDigest(current_hash), m, n - 1)

\* BloomFilter._get_hashes: the positions it yields, or the exception it raises
get_hashes_sameSeed(self, item, hst) ==
  IF self.m = None \/ self.k = None
    THEN [exc |-> "RuntimeError", seq |-> <<>>]
  ELSE IF self.m[1] <= 0
    THEN [exc |-> "RuntimeError", seq |-> <<>>]
  ELSE IF self.hash_func_name = FAST_HASH_FUNC
    THEN IF ~hst.murmur
           THEN [exc |-> "RuntimeError", seq |-> <<>>]
           ELSE LET hash1 == Mmh3(item, 0)
                    hash2 == Mmh3(item, 0)
                IN  [exc |-> "",
                     seq |-> [i \in 1..self.k[1] |-> (hash1 + (i - 1) * hash2) % self.m[1]]]
  ELSE [exc |-> "", seq |-> Md5Chain(Md5OfItem(item), self.m[1], self.k[1])]

get_hashes(self, item, hst) ==
  IF self.m = None \/ self.k = None
    THEN [exc |-> "RuntimeError", seq |-> <<>>]
  ELSE IF self.m[1] <= 0
    THEN [exc |-> "RuntimeError", seq |-> <<>>]
  ELSE IF self.hash_func_name = FAST_HASH_FUNC
    THEN IF ~hst.murmur
           THEN [exc |-> "RuntimeError", seq |-> <<>>]
           ELSE LET hash1 == Mmh3(item, 0)
                    hash2 == Mmh3(item, hash1)
                IN  [exc |-> "",
                     seq |-> [i \in 1..self.k[1] |-> (hash1 + (i - 1) * hash2) % self.m[1]]]
  ELSE [exc |-> "", seq |-> Md5Chain(Md5OfItem(item), self.m[1], self.k[1])]

Range(sq) == {sq[i] : i \in DOMAIN sq}

\* the page of the mapping that holds byte_idx is backed by the file
Backed(f, self, byte_idx) == self.offset[1] + byte_idx < f.len

RECURSIVE ContainsSeq(_, _, _)
ContainsSeq(self, f, sq) ==
  IF sq = <<>> THEN "True"
  ELSE LET byte_idx == Head(sq) \div 8
           bit_offset == Head(sq) % 8
       IN  IF ~(0 <= byte_idx /\ byte_idx < self.size[1]) THEN "False"
           ELSE IF ~Backed(f, self, byte_idx) THEN "SIGBUS"
           ELSE IF BitAnd(GetByte(f.data, byte_idx), Pow2(bit_offset)) = 0 THEN "False"
           ELSE ContainsSeq(self, f, Tail(sq))

\* BloomFilter.contains
contains_falseWhenClosed(self, f, item, hst) ==
  IF ~self.bits THEN Return("False")
  ELSE LET hs == get_hashes(self, item, hst)
       IN  IF hs.exc # "" THEN Return("False")
           ELSE Return(ContainsSeq(self, f, hs.seq))

contains(self, f, item, hst) ==
  IF ~self.bits THEN Raise("RuntimeError", "not_mapped")
  ELSE LET hs == get_hashes(self, item, hst)
       IN  IF hs.exc # "" THEN Return("False")
           ELSE Return(ContainsSeq(self, f, hs.seq))

\* the indices update collects: the items whose hashing raises are skipped
IndicesToSet_headOnly(self, items, hst) ==
  UNION { Range(get_hashes(self, items[i], hst).seq) : i \in DOMAIN items \cap {1} }

IndicesToSet(self, items, hst) ==
  UNION { Range(get_hashes(self, items[i], hst).seq) : i \in DOMAIN items }

(* ---------------- state ---------------- *)
VARIABLES
  host,    \* the machine: page size, mapping granularity, mmh3 installed
  file,    \* what is at the filter path
  h,       \* h[p]: the BloomFilter object of process p
  pc,      \* pc[p]: where process p is
  loc,     \* loc[p]: the locals of the call process p is in
  out,     \* out[p]: how the last call of process p ended
  added,   \* items passed to an add/update that returned, since the file was made
  trail,   \* how far the file is through write, sync, close, reopen
  born,    \* the arguments of the constructor call that made the file
  load     \* the state of one run of cmd_load (the load command)

fvars == <<host, file, h, pc, loc, out, added, trail, born>>
vars == <<fvars, load>>

MArgs == {None, Some(0), Some(5), Some(32768), Some(32769)}
KArgs == {None, Some(0), Some(1), Some(2)}
HashArgs == {NoName, DEFAULT_HASH_FUNC, FAST_HASH_FUNC}
CtorArgs == [m : MArgs, k : KArgs, readonly : BOOLEAN, hash_func_name : HashArgs]

NoArgs == [m |-> None, k |-> None, readonly |-> FALSE, hash_func_name |-> NoName]
NoLoc ==
  [args |-> NoArgs, file_exists |-> FALSE, item |-> 0, items |-> <<>>,
   pos |-> <<>>, todo |-> {}, cur |-> 0, val |-> 0]
Pending == [exc |-> "", why |-> "", ret |-> "pending"]

RECURSIVE SeqsUpTo(_)
SeqsUpTo(n) ==
  IF n = 0 THEN {<<>>}
  ELSE SeqsUpTo(n - 1) \cup {Append(sq, it) : sq \in {x \in SeqsUpTo(n - 1) : Len(x) = n - 1}, it \in Items}

Chunks == SeqsUpTo(MaxChunk)

\* no load command is running
NoLoad ==
  [lpc |-> "off",
   args |-> [bits |-> None, hashes |-> None, hash_func |-> NoName,
             sha1 |-> FALSE, lower |-> FALSE],
   input |-> [missing |-> FALSE, lines |-> <<>>],
   actual |-> NoArgs, chunks |-> <<>>,
   task |-> [w \in 1..NWorkers |-> [stage |-> "idle", chunk |-> <<>>, items |-> <<>>]],
   inbox |-> <<>>, total_processed_count |-> 0, chunks_submitted |-> 0,
   accepted |-> {},   \* (not in the program) the items of the updates that returned
   synced |-> FALSE,  \* (not in the program) the final sync wrote the pages out
   applied |-> {},    \* (not in the program) the chunks whose update has run
   before |-> {},     \* (not in the program) the data region when the command began
   lost |-> 0,        \* (not in the program) the valid lines of the chunks whose task failed
   run |-> 1,         \* (not in the program) 1 in the first run of the command, 2 in its rerun
   whole |-> FALSE,   \* (not in the program) the first run was complete when the rerun began
   mid |-> {},        \* (not in the program) the data region when the rerun began
   handed |-> <<>>,   \* (not in the program) the chunks handed to workers, in order
   wrote |-> {},      \* (not in the program) <<bit, item>>: an update of the item stored the bit
   victims |-> {},    \* (not in the program) the items whose stored bit a later store cleared
   drops |-> 0,       \* (not in the program) how many stores cleared a bit
   estimated_n |-> None,            \* cmd_info: args.n
   report |-> [kind |-> "none", lo |-> 0, hi |-> 0]]   \* cmd_info: what it printed

Init ==
  /\ host \in Hosts
  /\ file \in {NoFile} \cup ForeignFiles
  /\ load = NoLoad
  /\ h = [p \in Procs |-> NewSelf(NoArgs, host)]
  /\ pc = [p \in Procs |-> "none"]
  /\ loc = [p \in Procs |-> NoLoc]
  /\ out = [p \in Procs |-> Pending]
  /\ added = {}
  /\ trail = "fresh"
  /\ born = NoArgs

(* ---------------- the constructor ---------------- *)
\* BloomFilter(filename, m, k, readonly, hash_func_name) up to and including
\* file_exists = os.path.exists(filename)
CtorBegin(p, args) ==
  /\ pc[p] \in {"none", "ready"}
  /\ h' = [h EXCEPT ![p] = NewSelf(args, host)]
  /\ loc' = [loc EXCEPT ![p] = [NoLoc EXCEPT !.args = args, !.file_exists = file.exists]]
  /\ pc' = [pc EXCEPT ![p] = "ctor"]
  /\ out' = [out EXCEPT ![p] = Pending]
  /\ UNCHANGED <<host, file, added, trail, born>>

\* the rest of __init__: _open and the parameter checks, or _create
CtorFinish(p) ==
  /\ pc[p] = "ctor"
  /\ \E fault \in CreateFaults :
       LET r == BloomFilter_init(h[p], loc[p].args, loc[p].file_exists, file, host, fault)
           made == r.file # file
       IN  /\ h' = [h EXCEPT ![p] = r.self]
           /\ out' = [out EXCEPT ![p] = r.out]
           /\ file' = r.file
           /\ pc' = [pc EXCEPT ![p] = IF r.out.exc = "" THEN "ready" ELSE "none"]
           /\ added' = IF made THEN {} ELSE added
           /\ trail' = IF made THEN "fresh"
                       ELSE IF r.out.exc = "" /\ trail = "closed" THEN "reopened"
                       ELSE trail
           /\ born' = IF made THEN loc[p].args ELSE born
  /\ loc' = [loc EXCEPT ![p] = NoLoc]
  /\ UNCHANGED host

\* BloomFilter.close (also what __exit__ and __del__ do)
Close(p) ==
  /\ pc[p] = "ready"
  /\ h' = [h EXCEPT ![p] = close(h[p])]
  /\ out' = [out EXCEPT ![p] = Ok]
  /\ trail' = IF h[p].bits /\ trail = "synced" THEN "closed" ELSE trail
  /\ UNCHANGED <<host, file, pc, loc, added, born>>

\* BloomFilter.sync
Sync(p) ==
  /\ pc[p] = "ready"
  /\ out' = [out EXCEPT ![p] = Ok]
  /\ IF ~h[p].readonly /\ h[p].bits
       THEN /\ file' = [file EXCEPT !.dirty = FALSE]
            /\ trail' = IF trail = "written" THEN "synced" ELSE trail
       ELSE UNCHANGED <<file, trail>>
  /\ UNCHANGED <<host, h, pc, loc, added, born>>

\* BloomFilter.sync when the system refuses to write the pages out (EIO, no
\* space left for a page of the sparse file): the OSError of self.bits.flush()
\* is not among the exceptions sync catches and leaves the call; the OSError
\* of os.fsync is caught and logged, and sync returns
SyncFails(p) ==
  /\ pc[p] = "ready"
  /\ ~h[p].readonly /\ h[p].bits
  /\ \E o \in {Raise("OSError", "flush"), Ok} : out' = [out EXCEPT ![p] = o]
  /\ UNCHANGED <<host, file, h, pc, loc, added, trail, born>>

(* ---------------- add ---------------- *)
\* a call ends: with the exception or the value o, and back to the caller
Ends(p, o) ==
  /\ out' = [out EXCEPT ![p] = o]
  /\ pc' = [pc EXCEPT ![p] = "ready"]
  /\ loc' = [loc EXCEPT ![p] = NoLoc]

\* an add or an update of the items its returns normally
Returns(p, its) ==
  /\ Ends(p, Ok)
  /\ added' = added \cup its
  /\ trail' = "written"

\* the process dies of SIGBUS: the mapped page is no longer backed by the file
Crashes(p) ==
  /\ out' = [out EXCEPT ![p] = Raise("SIGBUS", "unbacked_page")]
  /\ pc' = [pc EXCEPT ![p] = "crashed"]
  /\ loc' = [loc EXCEPT ![p] = NoLoc]
  /\ UNCHANGED <<added, trail>>

\* BloomFilter.add up to the first position the generator yields
AddBegin_noReadonlyCheck(p, item) ==
  /\ pc[p] = "ready"
  /\ LET hs == get_hashes(h[p], item, host)
     IN  IF ~h[p].bits
           THEN Ends(p, Raise("RuntimeError", "not_mapped"))
         ELSE IF hs.exc # ""
           THEN Ends(p, Raise("RuntimeError", "hashing"))
         ELSE /\ pc' = [pc EXCEPT ![p] = "add_r"]
              /\ loc' = [loc EXCEPT ![p] = [NoLoc EXCEPT !.item = item, !.pos = hs.seq]]
              /\ out' = [out EXCEPT ![p] = Pending]
  /\ UNCHANGED <<host, file, h, added, trail, born>>

AddBegin(p, item) ==
  /\ pc[p] = "ready"
  /\ LET hs == get_hashes(h[p], item, host)
     IN  IF h[p].readonly
           THEN Ends(p, Raise("PermissionError", "read_only"))
         ELSE IF ~h[p].bits
           THEN Ends(p, Raise("RuntimeError", "not_mapped"))
         ELSE IF hs.exc # ""
           THEN Ends(p, Raise("RuntimeError", "hashing"))
         ELSE /\ pc' = [pc EXCEPT ![p] = "add_r"]
              /\ loc' = [loc EXCEPT ![p] = [NoLoc EXCEPT !.item = item, !.pos = hs.seq]]
              /\ out' = [out EXCEPT ![p] = Pending]
  /\ UNCHANGED <<host, file, h, added, trail, born>>

\* add moves on to the next position, or returns
AddNext(p) ==
  IF Tail(loc[p].pos) = <<>>
    THEN Returns(p, {loc[p].item})
    ELSE /\ loc' = [loc EXCEPT ![p].pos = Tail(@), ![p].val = 0]
         /\ pc' = [pc EXCEPT ![p] = "add_r"]
         /\ UNCHANGED <<out, added, trail>>

\* the read half of self.bits[byte_idx] |= (1 << bit_offset)
AddRead(p) ==
  /\ pc[p] = "add_r"
  /\ LET byte_idx == Head(loc[p].pos) \div 8
     IN  IF ~(0 <= byte_idx /\ byte_idx < h[p].size[1])
           THEN AddNext(p)
         ELSE IF ~Backed(file, h[p], byte_idx)
           THEN Crashes(p)
         ELSE /\ loc' = [loc EXCEPT ![p].val = GetByte(file.data, byte_idx)]
              /\ pc' = [pc EXCEPT ![p] = "add_w"]
              /\ UNCHANGED <<out, added, trail>>
  /\ UNCHANGED <<host, file, h, born>>

\* the byte add stores: the byte it read with the bit set
AddStore_plus(val, bit_offset) == (val + Pow2(bit_offset)) % 256

AddStore(val, bit_offset) == BitOr(val, Pow2(bit_offset))

\* the write half of self.bits[byte_idx] |= (1 << bit_offset)
AddWrite(p) ==
  /\ pc[p] = "add_w"
  /\ LET byte_idx == Head(loc[p].pos) \div 8
         bit_offset == Head(loc[p].pos) % 8
     IN  IF ~Backed(file, h[p], byte_idx)
           THEN Crashes(p) /\ UNCHANGED file
           ELSE /\ file' = [file EXCEPT
                      !.data = SetByte(@, byte_idx, AddStore(loc[p].val, bit_offset)),
                      !.dirty = TRUE]
                /\ AddNext(p)
  /\ UNCHANGED <<host, h, born>>

(* ---------------- update ---------------- *)
\* update moves on to the next index, or returns
UpdateNext(p, rest) ==
  IF rest = {}
    THEN Returns(p, Range(loc[p].items))
    ELSE /\ loc' = [loc EXCEPT ![p].todo = rest, ![p].cur = 0, ![p].val = 0]
         /\ pc' = [pc EXCEPT ![p] = "upd_r"]
         /\ UNCHANGED <<out, added, trail>>

\* BloomFilter.update up to the loop that sets the bits
UpdateBegin(p, items) ==
  /\ pc[p] = "ready"
  /\ IF h[p].readonly
       THEN Ends(p, Raise("PermissionError", "read_only")) /\ UNCHANGED <<added, trail>>
     ELSE IF ~h[p].bits
       THEN Ends(p, Raise("RuntimeError", "not_mapped")) /\ UNCHANGED <<added, trail>>
     ELSE LET indices_to_set == IndicesToSet(h[p], items, host)
          IN  IF indices_to_set = {}
                THEN /\ Ends(p, Ok)
                     /\ added' = added \cup Range(items)
                     /\ UNCHANGED trail
                ELSE /\ pc' = [pc EXCEPT ![p] = "upd_r"]
                     /\ loc' = [loc EXCEPT ![p] =
                                  [NoLoc EXCEPT !.items = items, !.todo = indices_to_set]]
                     /\ out' = [out EXCEPT ![p] = Pending]
                     /\ UNCHANGED <<added, trail>>
  /\ UNCHANGED <<host, file, h, born>>

\* current_byte_val = self.bits[byte_idx] and the test of the bit, for the
\* next index of indices_to_set (a set: any order)
UpdateRead(p) ==
  /\ pc[p] = "upd_r"
  /\ \E hh \in loc[p].todo :
       LET byte_idx == hh \div 8
           mask == Pow2(hh % 8)
           current_byte_val == GetByte(file.data, byte_idx)
       IN  IF ~(0 <= byte_idx /\ byte_idx < h[p].size[1])
             THEN UpdateNext(p, loc[p].todo \ {hh})
           ELSE IF ~Backed(file, h[p], byte_idx)
             THEN Crashes(p)
           ELSE IF BitAnd(current_byte_val, mask) # 0
             THEN UpdateNext(p, loc[p].todo \ {hh})
           ELSE /\ loc' = [loc EXCEPT ![p].cur = hh, ![p].val = current_byte_val]
                /\ pc' = [pc EXCEPT ![p] = "upd_w"]
                /\ UNCHANGED <<out, added, trail>>
  /\ UNCHANGED <<host, file, h, born>>

\* the byte update stores: the byte it read with the bit set
UpdateStore_maskOnly(current_byte_val, mask) == mask

UpdateStore_keepFirst(current_byte_val, mask) ==
  IF current_byte_val = 0 THEN mask ELSE current_byte_val

UpdateStore(current_byte_val, mask) == BitOr(current_byte_val, mask)

\* self.bits[byte_idx] = current_byte_val | mask
UpdateWrite(p) ==
  /\ pc[p] = "upd_w"
  /\ LET byte_idx == loc[p].cur \div 8
         mask == Pow2(loc[p].cur % 8)
     IN  IF ~Backed(file, h[p], byte_idx)
           THEN Crashes(p) /\ UNCHANGED file
           ELSE /\ file' = [file EXCEPT
                      !.data = SetByte(@, byte_idx, UpdateStore(loc[p].val, mask)),
                      !.dirty = TRUE]
                /\ UpdateNext(p, loc[p].todo \ {loc[p].cur})
  /\ UNCHANGED <<host, h, born>>

(* ---------------- contains ---------------- *)
Contains(p, item) ==
  /\ pc[p] = "ready"
  /\ LET r == contains(h[p], file, item, host)
     IN  IF r.ret = "SIGBUS"
           THEN Crashes(p)
           ELSE /\ out' = [out EXCEPT ![p] = r]
                /\ UNCHANGED <<pc, loc, added, trail>>
  /\ UNCHANGED <<host, file, h, born>>

(* ---------------- one client, one handle at a time ---------------- *)
Client(p) ==
  \/ \E args \in CtorArgs : CtorBegin(p, args)
  \/ CtorFinish(p)
  \/ \E item \in Items : AddBegin(p, item)
  \/ AddRead(p)
  \/ AddWrite(p)
  \/ \E items \in Chunks : UpdateBegin(p, items)
  \/ UpdateRead(p)
  \/ UpdateWrite(p)
  \/ \E item \in Items : Contains(p, item)
  \/ Sync(p)
  \/ Close(p)

Next == Client(0) /\ UNCHANGED load

Spec == Init /\ [][Next]_vars

(* ---------------- several processes on one existing filter ---------------- *)
\* the file a successful create(m, k, hash_func_name) leaves on the host
CreatedFile(hst, m, k, hname) ==
  BloomFilter_create(NewSelf([NoArgs EXCEPT !.m = Some(m), !.k = Some(k)], hst),
                     m, k, hname, NoFile, hst, "none").file

LinuxHosts == {hst \in Hosts : hst.murmur /\ get_alignment(hst) % hst.gran = 0}

SharedArgs == {a \in CtorArgs : a.m = None /\ a.k = None /\ a.hash_func_name = NoName}

\* the filter exists (made earlier by create, and closed); no object yet
ConcInit ==
  /\ load = NoLoad
  /\ host \in LinuxHosts
  /\ file \in {CreatedFile(host, 32769, 1, hn) : hn \in NameSet}
  /\ h = [p \in Procs |-> NewSelf(NoArgs, host)]
  /\ pc = [p \in Procs |-> "none"]
  /\ loc = [p \in Procs |-> NoLoc]
  /\ out = [p \in Procs |-> Pending]
  /\ added = {}
  /\ trail = "fresh"
  /\ born = NoArgs

Sharer(p) ==
  \/ \E args \in SharedArgs : CtorBegin(p, args)
  \/ CtorFinish(p)
  \/ \E item \in Items : AddBegin(p, item)
  \/ AddRead(p)
  \/ AddWrite(p)
  \/ \E items \in Chunks : UpdateBegin(p, items)
  \/ UpdateRead(p)
  \/ UpdateWrite(p)
  \/ \E item \in Items : Contains(p, item)
  \/ Sync(p)
  \/ Close(p)

ConcNext == (\E p \in 1..NWorkers : Sharer(p)) /\ UNCHANGED load

ConcSpec == ConcInit /\ [][ConcNext]_vars

(* ---------------- a whole call, run by one process alone ---------------- *)
\* the loop of add over the positions the generator yields
RECURSIVE AddLoop(_, _, _, _)
AddLoop(self, f, data, pos) ==
  IF pos = <<>> THEN [out |-> Ok, data |-> data]
  ELSE LET byte_idx == Head(pos) \div 8
           bit_offset == Head(pos) % 8
       IN  IF ~(0 <= byte_idx /\ byte_idx < self.size[1])
             THEN AddLoop(self, f, data, Tail(pos))
           ELSE IF ~Backed(f, self, byte_idx)
             THEN [out |-> Raise("SIGBUS", "unbacked_page"), data |-> data]
           ELSE AddLoop(self, f,
                        SetByte(data, byte_idx, AddStore(GetByte(data, byte_idx), bit_offset)),
                        Tail(pos))

\* BloomFilter.add: how it ends and the data region it leaves
BloomFilter_add(self, f, item, hst) ==
  IF self.readonly THEN [out |-> Raise("PermissionError", "read_only"), data |-> f.data]
  ELSE IF ~self.bits THEN [out |-> Raise("RuntimeError", "not_mapped"), data |-> f.data]
  ELSE LET hs == get_hashes(self, item, hst)
       IN  IF hs.exc # "" THEN [out |-> Raise("RuntimeError", "hashing"), data |-> f.data]
           ELSE AddLoop(self, f, f.data, hs.seq)

\* the loop of update over indices_to_set
RECURSIVE UpdateLoop(_, _, _, _)
UpdateLoop(self, f, data, todo) ==
  IF todo = {} THEN [out |-> Ok, data |-> data]
  ELSE LET hh == CHOOSE x \in todo : \A y \in todo : x <= y
           byte_idx == hh \div 8
           mask == Pow2(hh % 8)
           current_byte_val == GetByte(data, byte_idx)
       IN  IF ~(0 <= byte_idx /\ byte_idx < self.size[1])
             THEN UpdateLoop(self, f, data, todo \ {hh})
           ELSE IF ~Backed(f, self, byte_idx)
             THEN [out |-> Raise("SIGBUS", "unbacked_page"), data |-> data]
           ELSE IF BitAnd(current_byte_val, mask) # 0
             THEN UpdateLoop(self, f, data, todo \ {hh})
           ELSE UpdateLoop(self, f,
                           SetByte(data, byte_idx, UpdateStore(current_byte_val, mask)),
                           todo \ {hh})

\* BloomFilter.update: how it ends and the data region it leaves
BloomFilter_update(self, f, items, hst) ==
  IF self.readonly THEN [out |-> Raise("PermissionError", "read_only"), data |-> f.data]
  ELSE IF ~self.bits THEN [out |-> Raise("RuntimeError", "not_mapped"), data |-> f.data]
  ELSE UpdateLoop(self, f, f.data, IndicesToSet(self, items, hst))

(* ---------------- one process on a filter that opens ---------------- *)
\* the filters at the path: made by create, or another program's that _open accepts
\* the file after create(m, k, hash_func_name) and update(items) on a machine
\* like the host with mmh3 installed
FilledFile(hst, m, k, hname, items) ==
  LET maker == [hst EXCEPT !.murmur = TRUE]
      r == BloomFilter_create(NewSelf([NoArgs EXCEPT !.m = Some(m), !.k = Some(k)], maker),
                              m, k, hname, NoFile, maker, "none")
  IN  [r.file EXCEPT !.data = BloomFilter_update(r.self, r.file, items, maker).data]

UseFiles(hst) ==
  {f \in ForeignFiles
          \cup {FilledFile(hst, mm, kk, hn, its) :
                  mm \in {12, 32769}, kk \in {1, 2}, hn \in NameSet, its \in {<<>>, <<1>>}} :
     BloomFilter_open(NewSelf(NoArgs, hst), f, hst).out.exc = ""}

UseArgs == {a \in CtorArgs : a.m = None /\ a.k = None}

UseInit ==
  /\ load = NoLoad
  /\ host \in Hosts
  /\ file \in UseFiles(host)
  /\ h = [p \in Procs |-> NewSelf(NoArgs, host)]
  /\ pc = [p \in Procs |-> "none"]
  /\ loc = [p \in Procs |-> NoLoc]
  /\ out = [p \in Procs |-> Pending]
  /\ added = {}
  /\ trail = "fresh"
  /\ born = NoArgs

User(p) ==
  \/ \E args \in UseArgs : CtorBegin(p, args)
  \/ CtorFinish(p)
  \/ \E item \in Items : AddBegin(p, item)
  \/ AddRead(p)
  \/ AddWrite(p)
  \/ \E items \in Chunks : UpdateBegin(p, items)
  \/ UpdateRead(p)
  \/ UpdateWrite(p)
  \/ \E item \in Items : Contains(p, item)
  \/ Sync(p)
  \/ SyncFails(p)
  \/ Close(p)

UseNext == User(0) /\ UNCHANGED load

UseSpec == UseInit /\ [][UseNext]_vars

(* ---------------- updates of chunks, one after another ---------------- *)
OrderFiles(hst) ==
  {f \in {FilledFile(hst, mm, 2, hn, <<>>) : mm \in {12, 32769}, hn \in NameSet} :
     BloomFilter_open(NewSelf(NoArgs, hst), f, hst).out.exc = ""}

OrderInit ==
  /\ host \in Hosts
  /\ file \in OrderFiles(host)
  /\ load = [NoLoad EXCEPT !.before = file.data]
  /\ h = [p \in Procs |-> NewSelf(NoArgs, host)]
  /\ pc = [p \in Procs |-> "none"]
  /\ loc = [p \in Procs |-> NoLoc]
  /\ out = [p \in Procs |-> Pending]
  /\ added = {}
  /\ trail = "fresh"
  /\ born = NoArgs

\* filt.update(chunk), from the call to its return, with no other process
\* at work on the file
ApplyUpdate(p, chunk) ==
  /\ pc[p] = "ready"
  /\ chunk \notin load.applied
  /\ Cardinality(load.applied) < MaxApplied
  /\ LET r == BloomFilter_update(h[p], file, chunk, host)
     IN  /\ out' = [out EXCEPT ![p] = r.out]
         /\ file' = [file EXCEPT !.data = r.data, !.dirty = @ \/ r.data # file.data]
         /\ added' = IF r.out.exc = "" THEN added \cup Range(chunk) ELSE added
         /\ trail' = IF r.data # file.data THEN "written" ELSE trail
  /\ load' = [load EXCEPT !.applied = @ \cup {chunk}]
  /\ UNCHANGED <<host, h, pc, loc, born>>

OrderNext ==
  \/ CtorBegin(0, NoArgs) /\ pc[0] = "none" /\ UNCHANGED load
  \/ CtorFinish(0) /\ UNCHANGED load
  \/ \E chunk \in Chunks : ApplyUpdate(0, chunk)

OrderSpec == OrderInit /\ [][OrderNext]_vars

(* ---------------- the load command ---------------- *)
\* read_chunks: the chunks it yields for the lines of the input
RECURSIVE read_chunks_fullOnly(_, _)
read_chunks_fullOnly(lines, chunk_size) ==
  IF Len(lines) < chunk_size THEN <<>>
  ELSE <<SubSeq(lines, 1, chunk_size)>>
         \o read_chunks_fullOnly(SubSeq(lines, chunk_size + 1, Len(lines)), chunk_size)

RECURSIVE read_chunks(_, _)
read_chunks(lines, chunk_size) ==
  IF lines = <<>> THEN <<>>
  ELSE IF Len(lines) <= chunk_size THEN <<lines>>
  ELSE <<SubSeq(lines, 1, chunk_size)>>
         \o read_chunks(SubSeq(lines, chunk_size + 1, Len(lines)), chunk_size)

\* A line of the input is 0 (blank) or an item.  Spelling of the items: item 1
\* is shorter than 40 characters, the others are not; an even item is the
\* upper-case spelling of the odd item before it.
Lines == 0..NItems
IsLong(item) == item > 1
Upper40(item) == IF item % 2 = 1 THEN item + 1 ELSE item
Lower(item) == IF item % 2 = 0 THEN item - 1 ELSE item

\* worker_process: items_to_update for a chunk
RECURSIVE ItemsToUpdate(_, _, _)
ItemsToUpdate(lines_chunk, apply_sha1, apply_lower) ==
  IF lines_chunk = <<>> THEN <<>>
  ELSE LET item == Head(lines_chunk)
           rest == ItemsToUpdate(Tail(lines_chunk), apply_sha1, apply_lower)
       IN  IF item = 0 THEN rest
           ELSE IF apply_sha1
             THEN (IF IsLong(item) THEN <<Upper40(item)>> \o rest ELSE rest)
           ELSE IF apply_lower THEN <<Lower(item)>> \o rest
           ELSE <<item>> \o rest

RECURSIVE LinesUpTo(_)
LinesUpTo(n) ==
  IF n = 0 THEN {<<>>}
  ELSE LinesUpTo(n - 1)
         \cup {Append(sq, ln) : sq \in {x \in LinesUpTo(n - 1) : Len(x) = n - 1}, ln \in Lines}

Inputs ==
  {[missing |-> TRUE, lines |-> <<>>]}
    \cup {[missing |-> FALSE, lines |-> ls] : ls \in LinesUpTo(MaxLines)}

LoadArgs ==
  [bits : {None, Some(32769)}, hashes : {None, Some(1)}, hash_func : {NoName, DEFAULT_HASH_FUNC},
   sha1 : BOOLEAN, lower : {FALSE}]
    \cup [bits : {Some(32769)}, hashes : {Some(1)}, hash_func : {NoName},
          sha1 : {FALSE}, lower : {TRUE}]

\* what is at the filter path when the command starts: nothing, a filter made
\* earlier (empty, or holding an item), or another program's file (unreadable,
\* cut short, or one _open accepts)
LoadFiles(hst) ==
  {NoFile, CreatedFile(hst, 32769, 1, DEFAULT_HASH_FUNC),
   FilledFile(hst, 12, 2, FAST_HASH_FUNC, <<1>>)}
    \cup {f \in ForeignFiles :
            \/ f.hdr.kind = "garbage" /\ f.len > 0
            \/ /\ f.hdr.kind = "ok" /\ f.hdr.m = 12 /\ f.hdr.k = 2 /\ f.hdr.size = 1
               /\ f.hdr.offset = 4096 /\ f.hdr.hash_func_name \in {"md5", "null"}}

LoadInit ==
  /\ host \in LinuxHosts
  /\ file \in LoadFiles(host)
  /\ h = [p \in Procs |-> NewSelf(NoArgs, host)]
  /\ pc = [p \in Procs |-> "none"]
  /\ loc = [p \in Procs |-> NoLoc]
  /\ out = [p \in Procs |-> Pending]
  /\ added = {}
  /\ trail = "fresh"
  /\ born = NoArgs
  /\ \E a \in LoadArgs, inp \in Inputs :
       load = [NoLoad EXCEPT !.lpc = "start", !.args = a, !.input = inp,
                             !.before = file.data]

\* cmd_load, step 1: BloomFilter(filter_filename, m=args.bits, k=args.hashes,
\* hash_func_name=args.hash_func), up to the existence check
LoadInitBegin ==
  /\ load.lpc = "start"
  /\ CtorBegin(0, [m |-> load.args.bits, k |-> load.args.hashes, readonly |-> FALSE,
                   hash_func_name |-> load.args.hash_func])
  /\ load' = [load EXCEPT !.lpc = "init"]

\* the constructor ends: sys.exit(1) on an exception, else the parameters of
\* the filter become the run's
LoadInitEnd_goesOn ==
  /\ load.lpc = "init"
  /\ CtorFinish(0)
  /\ load' = IF h'[0].hash_func_name = NoName THEN [load EXCEPT !.lpc = "reject"]
             ELSE [load EXCEPT !.lpc = "opened",
                     !.actual = [m |-> h'[0].m, k |-> h'[0].k, readonly |-> FALSE,
                                 hash_func_name |-> h'[0].hash_func_name]]

LoadInitEnd ==
  /\ load.lpc = "init"
  /\ CtorFinish(0)
  /\ load' = IF out'[0].exc # "" THEN [load EXCEPT !.lpc = "failed"]
             ELSE IF h'[0].hash_func_name = NoName THEN [load EXCEPT !.lpc = "reject"]
             ELSE [load EXCEPT !.lpc = "opened",
                     !.actual = [m |-> h'[0].m, k |-> h'[0].k, readonly |-> FALSE,
                                 hash_func_name |-> h'[0].hash_func_name]]

\* the with block of step 1 ends: the object is closed; a RuntimeError raised
\* in it ends the run, else the pool starts on the chunks of the input
LoadInitClose ==
  /\ load.lpc \in {"opened", "reject"}
  /\ Close(0)
  /\ load' = IF load.lpc = "reject" THEN [load EXCEPT !.lpc = "failed"]
             ELSE [load EXCEPT !.lpc = "running",
                     !.chunks = read_chunks(load.input.lines, ChunkSize)]

\* read_chunks raises FileNotFoundError when the pool asks for the first task
LoadInputMissing ==
  /\ load.lpc = "running"
  /\ load.input.missing
  /\ load' = [load EXCEPT !.lpc = "failed"]
  /\ UNCHANGED fvars

\* an idle worker of the pool takes the next chunk
Dispatch(w) ==
  /\ load.lpc = "running"
  /\ ~load.input.missing
  /\ load.task[w].stage = "idle"
  /\ load.chunks # <<>>
  /\ load' = [load EXCEPT !.chunks = Tail(@),
                !.handed = Append(@, Head(load.chunks)),
                !.task[w] = [stage |-> "open", chunk |-> Head(load.chunks), items |-> <<>>]]
  /\ UNCHANGED fvars

\* worker_process: BloomFilter(filter_filename, m=m, k=k,
\* hash_func_name=hash_func_name, readonly=False), up to the existence check
WorkerCtor(w) ==
  /\ load.task[w].stage = "open"
  /\ CtorBegin(w, load.actual)
  /\ load' = [load EXCEPT !.task[w].stage = "ctor"]

\* the worker's constructor ends; items_to_update is built from the chunk
WorkerCtorFinish(w) ==
  /\ load.task[w].stage = "ctor"
  /\ CtorFinish(w)
  /\ load' = IF out'[w].exc # "" THEN [load EXCEPT !.task[w].stage = "raised"]
             ELSE [load EXCEPT !.task[w].stage = "update",
                     !.task[w].items = ItemsToUpdate(load.task[w].chunk,
                                                     load.args.sha1, load.args.lower)]

\* if items_to_update: filt.update(items_to_update)
WorkerUpdate(w) ==
  /\ load.task[w].stage = "update"
  /\ IF load.task[w].items = <<>>
       THEN UNCHANGED fvars
       ELSE UpdateBegin(w, load.task[w].items)
  /\ load' = [load EXCEPT !.task[w].stage = "updating"]

WorkerUpdateRead(w) ==
  /\ load.task[w].stage = "updating"
  /\ UpdateRead(w)
  /\ UNCHANGED load

WorkerUpdateWrite(w) ==
  /\ load.task[w].stage = "updating"
  /\ UpdateWrite(w)
  /\ UNCHANGED load

\* the worker's open() or mmap.mmap() is refused by the system (descriptors or
\* memory used up): _open closes the object and raises IOError
WorkerCtorFails(w) ==
  /\ load.task[w].stage = "ctor"
  /\ pc[w] = "ctor"
  /\ loc[w].file_exists
  /\ h' = [h EXCEPT ![w] = close(h[w])]
  /\ out' = [out EXCEPT ![w] = Raise("IOError", "open")]
  /\ pc' = [pc EXCEPT ![w] = "none"]
  /\ loc' = [loc EXCEPT ![w] = NoLoc]
  /\ load' = [load EXCEPT !.task[w].stage = "raised"]
  /\ UNCHANGED <<host, file, added, trail, born>>

\* the with block ends (the object is closed) and the worker returns
\* len(items_to_update), or 0 from its except branch
WorkerReturn_countsFailed(w) ==
  /\ load.task[w].stage \in {"updating", "raised"}
  /\ pc[w] \in {"ready", "none"}
  /\ LET failed == load.task[w].stage = "raised" \/ out[w].exc # ""
         valid == ItemsToUpdate(load.task[w].chunk, load.args.sha1, load.args.lower)
     IN  load' = [load EXCEPT
                    !.task[w] = [stage |-> "idle", chunk |-> <<>>, items |-> <<>>],
                    !.inbox = Append(@, Len(valid)),
                    !.accepted = IF failed THEN @ ELSE @ \cup Range(load.task[w].items),
                    !.lost = IF failed THEN @ + Len(valid) ELSE @]
  /\ IF pc[w] = "ready" THEN Close(w) ELSE UNCHANGED fvars

WorkerReturn(w) ==
  /\ load.task[w].stage \in {"updating", "raised"}
  /\ pc[w] \in {"ready", "none"}
  /\ LET failed == load.task[w].stage = "raised" \/ out[w].exc # ""
         n == IF failed THEN 0 ELSE Len(load.task[w].items)
         valid == ItemsToUpdate(load.task[w].chunk, load.args.sha1, load.args.lower)
     IN  load' = [load EXCEPT
                    !.task[w] = [stage |-> "idle", chunk |-> <<>>, items |-> <<>>],
                    !.inbox = Append(@, n),
                    !.accepted = IF failed THEN @ ELSE @ \cup Range(load.task[w].items),
                    !.lost = IF failed THEN @ + Len(valid) ELSE @]
  /\ IF pc[w] = "ready" THEN Close(w) ELSE UNCHANGED fvars

\* for lines_in_chunk_processed in results: the next result is added up
Collect ==
  /\ load.lpc = "running"
  /\ load.inbox # <<>>
  /\ load' = [load EXCEPT !.inbox = Tail(@),
                !.total_processed_count = @ + Head(load.inbox),
                !.chunks_submitted = @ + 1]
  /\ UNCHANGED fvars

\* the results are exhausted: every chunk was handed out and came back
LoadDrained_ignoresMissing ==
  /\ load.lpc = "running"
  /\ load.chunks = <<>>
  /\ load.inbox = <<>>
  /\ \A w \in 1..NWorkers : load.task[w].stage = "idle"
  /\ load' = [load EXCEPT !.lpc = "final"]
  /\ UNCHANGED fvars

LoadDrained ==
  /\ load.lpc = "running"
  /\ ~load.input.missing
  /\ load.chunks = <<>>
  /\ load.inbox = <<>>
  /\ \A w \in 1..NWorkers : load.task[w].stage = "idle"
  /\ load' = [load EXCEPT !.lpc = "final"]
  /\ UNCHANGED fvars

\* step 3: BloomFilter(filter_filename, readonly=False), up to the existence check
LoadFinalBegin ==
  /\ load.lpc = "final"
  /\ CtorBegin(0, NoArgs)
  /\ load' = [load EXCEPT !.lpc = "final_ctor"]

\* the constructor ends; its exception is logged and the command goes on
LoadFinalOpen ==
  /\ load.lpc = "final_ctor"
  /\ CtorFinish(0)
  /\ load' = [load EXCEPT !.lpc = IF out'[0].exc # "" THEN "done" ELSE "final_sync"]

\* final_filt.sync()
LoadFinalSync ==
  /\ load.lpc = "final_sync"
  /\ Sync(0)
  /\ load' = [load EXCEPT !.lpc = "final_close", !.synced = TRUE]

\* final_filt.sync() fails: it returns after logging, or its exception leaves
\* the with block and is logged by cmd_load; the command goes on either way
LoadFinalSyncFails ==
  /\ load.lpc = "final_sync"
  /\ SyncFails(0)
  /\ load' = [load EXCEPT !.lpc = "final_close"]

\* the with block of step 3 ends and the command returns
LoadFinalClose ==
  /\ load.lpc = "final_close"
  /\ Close(0)
  /\ load' = [load EXCEPT !.lpc = "done"]

LoadNext ==
  \/ LoadInitBegin
  \/ LoadInitEnd
  \/ LoadInitClose
  \/ LoadInputMissing
  \/ \E w \in 1..NWorkers :
       \/ Dispatch(w)
       \/ WorkerCtor(w)
       \/ WorkerCtorFinish(w)
       \/ WorkerUpdate(w)
       \/ WorkerUpdateRead(w)
       \/ WorkerUpdateWrite(w)
       \/ WorkerReturn(w)
  \/ Collect
  \/ LoadDrained
  \/ LoadFinalBegin
  \/ LoadFinalOpen
  \/ LoadFinalSync
  \/ LoadFinalSyncFails
  \/ LoadFinalClose

LoadSpec == LoadInit /\ [][LoadNext]_vars

(* ---------------- several processes on a path that holds no file ---------------- *)
\* each constructs BloomFilter(path, m=5, k=1) read-write, as two load
\* commands started on a fresh path do in their step 1
TwinArgs ==
  {a \in CtorArgs : a.m = Some(5) /\ a.k = Some(1) /\ ~a.readonly /\ a.hash_func_name = NoName}

TwinInit ==
  /\ load = NoLoad
  /\ host \in LinuxHosts
  /\ file = NoFile
  /\ h = [p \in Procs |-> NewSelf(NoArgs, host)]
  /\ pc = [p \in Procs |-> "none"]
  /\ loc = [p \in Procs |-> NoLoc]
  /\ out = [p \in Procs |-> Pending]
  /\ added = {}
  /\ trail = "fresh"
  /\ born = NoArgs

Twin(p) ==
  \/ \E args \in TwinArgs : CtorBegin(p, args)
  \/ CtorFinish(p)
  \/ \E item \in Items : AddBegin(p, item)
  \/ AddRead(p)
  \/ AddWrite(p)
  \/ Sync(p)
  \/ Close(p)

TwinNext == (\E p \in 1..NWorkers : Twin(p)) /\ UNCHANGED load

TwinSpec == TwinInit /\ [][TwinNext]_vars

(* ---------------- the pool's workers on a small filter ---------------- *)
\* Each worker has the filter open (worker_process, line 530) and takes
\* one-item chunks; every item of the input is in one chunk.
NRaceItems == 3
RaceItems == 1..NRaceItems

\* a filter of 5 bits and one md5 position per item: items 1 and 2 have
\* position 4, item 3 has position 3
RaceInit ==
  /\ host \in LinuxHosts
  /\ file = CreatedFile(host, 5, 1, DEFAULT_HASH_FUNC)
  /\ h = [p \in Procs |-> IF p = 0 THEN NewSelf(NoArgs, host)
                          ELSE BloomFilter_open(NewSelf(NoArgs, host), file, host).self]
  /\ pc = [p \in Procs |-> IF p = 0 THEN "none" ELSE "ready"]
  /\ loc = [p \in Procs |-> NoLoc]
  /\ out = [p \in Procs |-> Pending]
  /\ added = {}
  /\ trail = "fresh"
  /\ born = NoArgs
  /\ load = [NoLoad EXCEPT !.lpc = "running"]

\* filt.update(items_to_update) for a chunk nobody has taken yet
RaceTake(w, item) ==
  /\ <<item>> \notin load.applied
  /\ UpdateBegin(w, <<item>>)
  /\ load' = [load EXCEPT !.applied = @ \cup {<<item>>}]

RaceRead(w) ==
  /\ UpdateRead(w)
  /\ UNCHANGED load

RaceWrite(w) ==
  /\ UpdateWrite(w)
  /\ LET gone == file.data \ file'.data
     IN  load' = [load EXCEPT
                    !.wrote = @ \cup {<<loc[w].cur, loc[w].items[1]>>},
                    !.victims = @ \cup {pr[2] : pr \in {x \in load.wrote : x[1] \in gone}},
                    !.drops = IF gone = {} THEN @ ELSE @ + 1]

RaceNext ==
  \E w \in 1..NWorkers :
    \/ \E item \in RaceItems : RaceTake(w, item)
    \/ RaceRead(w)
    \/ RaceWrite(w)

RaceSpec == RaceInit /\ [][RaceNext]_vars

(* ---------------- the info command ---------------- *)
\* Rates are held in units of 1/10000, as a range [lo, hi] that encloses the
\* floating-point number.

\* floor(k * n / m) and whether k * n / m is above a whole number, with no
\* product beyond 32 bits
KnOverM(m, k, n) == k * (n \div m) + (k * (n % m)) \div m
KnOverMAbove(m, k, n, bound) ==
  \/ KnOverM(m, k, n) > bound
  \/ KnOverM(m, k, n) = bound /\ (k * (n % m)) % m > 0

\* math.pow(1.0 - math.exp(-k * n / m), k): with x = k*n/m and q = floor(x),
\* exp(-x) <= 1 / (1 + q + q*q/2), and (1 - e)^k >= 1 - k*e
PowOneMinusExp(m, k, n) ==
  LET q0 == KnOverM(m, k, n)
      q == IF q0 > 1000 THEN 1000 ELSE q0
      d == 1 + q + (q * q) \div 2
      off == (k * 10000) \div d + 1
  IN  [lo |-> IF off > 10000 THEN 0 ELSE 10000 - off, hi |-> 10000]

ExpGuard == 700

\* p_actual = 0.0 if exponent < -700 else math.pow(1.0 - math.exp(exponent), filt.k)
p_actual(m, k, n) ==
  IF KnOverMAbove(m, k, n, ExpGuard) THEN [lo |-> 0, hi |-> 0]
  ELSE PowOneMinusExp(m, k, n)

InfoBits == {12, 32769, 9585058}
InfoHashes == {1, 2, 14}
InfoNs == {None, Some(0), Some(1), Some(100), Some(1000000), Some(850000000)}

InfoInit ==
  /\ host \in LinuxHosts
  /\ file \in {NoFile} \cup {CreatedFile(host, m, k, DEFAULT_HASH_FUNC) :
                                m \in InfoBits, k \in InfoHashes}
  /\ h = [p \in Procs |-> NewSelf(NoArgs, host)]
  /\ pc = [p \in Procs |-> "none"]
  /\ loc = [p \in Procs |-> NoLoc]
  /\ out = [p \in Procs |-> Pending]
  /\ added = {}
  /\ trail = "fresh"
  /\ born = NoArgs
  /\ \E n \in InfoNs : load = [NoLoad EXCEPT !.lpc = "info", !.estimated_n = n]

\* cmd_info: BloomFilter(filter_filename, readonly=True), up to the existence check
InfoBegin ==
  /\ load.lpc = "info"
  /\ CtorBegin(0, [NoArgs EXCEPT !.readonly = TRUE])
  /\ load' = [load EXCEPT !.lpc = "info_ctor"]

\* the constructor ends: sys.exit(1) on an exception
InfoOpen ==
  /\ load.lpc = "info_ctor"
  /\ CtorFinish(0)
  /\ load' = [load EXCEPT !.lpc = IF out'[0].exc # "" THEN "failed" ELSE "info_open"]

\* the estimates for n
InfoEstimate ==
  /\ load.lpc = "info_open"
  /\ LET n == load.estimated_n
         none == [kind |-> "no_n", lo |-> 0, hi |-> 0]
     IN  load' = [load EXCEPT !.lpc = "info_close",
                    !.report =
                      IF n = None THEN none
                      ELSE IF n[1] <= 0 THEN [none EXCEPT !.kind = "bad_n"]
                      ELSE IF h[0].m = None \/ h[0].k = None THEN [none EXCEPT !.kind = "bad_mk"]
                      ELSE IF h[0].m[1] <= 0 \/ h[0].k[1] <= 0 THEN [none EXCEPT !.kind = "bad_mk"]
                      ELSE LET r == p_actual(h[0].m[1], h[0].k[1], n[1])
                           IN  [kind |-> "p", lo |-> r.lo, hi |-> r.hi]]
  /\ UNCHANGED fvars

\* the with block ends
InfoClose ==
  /\ load.lpc = "info_close"
  /\ Close(0)
  /\ load' = [load EXCEPT !.lpc = "done"]

InfoNext ==
  \/ InfoBegin
  \/ InfoOpen
  \/ InfoEstimate
  \/ InfoClose

InfoSpec == InfoInit /\ [][InfoNext]_vars

(* ---------------- cmd_load run again on the same input ---------------- *)

\* a new filter of 32769 bits and one md5 position per item
ResumeInit ==
  /\ LoadInit
  /\ file = NoFile
  /\ load.args.bits = Some(32769) /\ load.args.hashes = Some(1)
  /\ ~load.args.sha1

\* the command is killed while its pool works (its processes end, the pages
\* they wrote stay in the file), or it has completed; then the same command
\* line is run again
LoadRerun ==
  /\ load.run = 1
  /\ load.lpc \in {"running", "done"}
  /\ h' = [p \in Procs |-> close(h[p])]
  /\ pc' = [p \in Procs |-> "none"]
  /\ loc' = [p \in Procs |-> NoLoc]
  /\ out' = [p \in Procs |-> Pending]
  /\ load' = [NoLoad EXCEPT !.lpc = "start", !.args = load.args, !.input = load.input,
                            !.before = load.before, !.run = 2,
                            !.whole = (load.lpc = "done"), !.mid = file.data]
  /\ UNCHANGED <<host, file, added, trail, born>>

ResumeNext ==
  \/ LoadNext
  \/ LoadRerun

ResumeSpec == ResumeInit /\ [][ResumeNext]_vars

(* ---------------- cmd_load with workers whose open is refused ---------------- *)

\* the filter path holds nothing or an empty filter when the command starts
FaultInit ==
  /\ LoadInit
  /\ file \in {NoFile, CreatedFile(host, 32769, 1, DEFAULT_HASH_FUNC)}
  /\ load.args.bits = Some(32769) /\ load.args.hashes = Some(1)
  /\ load.args.hash_func = NoName /\ ~load.args.sha1 /\ ~load.args.lower

FaultNext ==
  \/ LoadNext
  \/ \E w \in 1..NWorkers : WorkerCtorFails(w)

\* the main process and the pool's workers keep running while they have a step
FaultSpec == FaultInit /\ [][FaultNext]_vars /\ WF_vars(FaultNext)

(* ======================================================================= *)
(* Properties                                                              *)
(* ======================================================================= *)
\* the constructor call of process p ends in this step
CtorEnds(p) == pc[p] = "ctor" /\ pc'[p] # "ctor"

\* a header _open cannot accept: no first line, no decodable record, or a
\* field that is not positive
HeaderCorrupt(hdr) ==
  hdr.kind # "ok" \/ hdr.m <= 0 \/ hdr.k <= 0 \/ hdr.size <= 0 \/ hdr.offset <= 0

\* a filter file that can be opened and mapped on the host
Openable(f, hst) ==
  /\ f.exists
  /\ ~HeaderCorrupt(f.hdr)
  /\ f.len >= f.hdr.offset + f.hdr.size
  /\ f.hdr.offset % hst.gran = 0

\* C1: no false negatives.  On a filter made by create, once add(item) or
\* update(items) has returned on a writable handle, contains(item) is true on
\* every mapped handle: right after the call, and after sync, close and reopen.
C1_NoFalseNegatives ==
  \A p \in Procs :
    (file.origin = "create" /\ pc[p] = "ready" /\ h[p].bits)
      => \A it \in added : contains(h[p], file, it, host) = Return("True")

\* an item was added, the filter synced, closed and reopened, and contains of
\* an added item has just answered true on the new handle
C1_Witness ==
  \E p \in Procs :
    /\ file.origin = "create" /\ trail = "reopened" /\ added = Items
    /\ pc[p] = "ready" /\ h[p].bits /\ h[p].via = "open"
    /\ out[p] = Return("True")

\* an explicit argument of the constructor differs from what the header stores
C4_Differs(args, hdr) ==
  \/ args.m # None /\ args.m[1] # hdr.m
  \/ args.k # None /\ args.k[1] # hdr.k
  \/ /\ args.hash_func_name # NoName
     /\ hdr.hash_func_name \in NameSet
     /\ args.hash_func_name # hdr.hash_func_name

C5_RoundTrip ==
  \A p \in Procs :
    (h[p].bits /\ h[p].via = "open" /\ file.origin = "create"
       /\ born.hash_func_name # NoName)
      => /\ h[p].m = born.m
         /\ h[p].k = born.k
         /\ h[p].hash_func_name = born.hash_func_name
         /\ h[p].size[1] * 8 >= born.m[1]

\* C5 amended: the same, but the name is md5 when murmur3 was asked for on a
\* host without the mmh3 library.
C5_RoundTripAmended ==
  \A p \in Procs :
    (h[p].bits /\ h[p].via = "open" /\ file.origin = "create"
       /\ born.hash_func_name # NoName)
      => /\ h[p].m = born.m
         /\ h[p].k = born.k
         /\ h[p].hash_func_name =
              (IF born.hash_func_name = FAST_HASH_FUNC /\ ~host.murmur
                 THEN DEFAULT_HASH_FUNC ELSE born.hash_func_name)
         /\ h[p].size[1] * 8 >= born.m[1]

\* a file made with an explicit name and m = 32769 has been reopened read-only
C5_Witness ==
  \E p \in Procs :
    /\ h[p].bits /\ h[p].via = "open" /\ h[p].readonly /\ file.origin = "create"
    /\ born.hash_func_name = FAST_HASH_FUNC /\ born.m = Some(32769)

\* C6: open rejects every invalid file.  A missing or undecodable first line
\* or a non-positive m, k, size or offset ends in the IOError of the header
\* checks; a good header on a file shorter than offset+size ends in the
\* IOError of the length check; either way nothing stays mapped or open and
\* the caller gets no object.
C6_OpenRejectsInvalid ==
  [][\A p \in Procs :
       (CtorEnds(p) /\ loc[p].file_exists /\ file.exists)
       => /\ HeaderCorrupt(file.hdr)
               => /\ out'[p].exc = "IOError"
                  /\ out'[p].why \in {"header_missing", "header_unparseable", "invalid_params"}
                  /\ pc'[p] = "none" /\ ~h'[p].bits /\ ~h'[p].fd
          /\ (~HeaderCorrupt(file.hdr) /\ file.len < file.hdr.offset + file.hdr.size)
               => /\ out'[p] = Raise("IOError", "file_too_small")
                  /\ pc'[p] = "none" /\ ~h'[p].bits /\ ~h'[p].fd]_vars

\* an open of a file with a good header was refused for the file's length
C6_Witness ==
  \E p \in Procs :
    /\ ~HeaderCorrupt(file.hdr) /\ file.len < file.hdr.offset + file.hdr.size
    /\ out[p] = Raise("IOError", "file_too_small")
    /\ pc[p] = "none" /\ ~h[p].bits

\* C7: every mapped handle has offset >= the length of the header line,
\* size*8 >= m, m > 0 and k > 0.
C7_HeaderInvariant ==
  \A p \in Procs :
    h[p].bits
      => /\ h[p].offset[1] >= file.linelen
         /\ h[p].size[1] * 8 >= h[p].m[1]
         /\ h[p].m[1] > 0
         /\ h[p].k[1] > 0

\* C8: after a successful create with alignment A the object has offset = A,
\* its size is the least multiple of A that holds ceil(m/8) bytes, and the
\* file is exactly offset+size bytes long.
C8_CreateLayout ==
  \A p \in Procs :
    (h[p].bits /\ h[p].via = "create")
      => LET A == get_alignment(host)
             m == born.m[1]
             size == h[p].size[1]
         IN  /\ h[p].offset = Some(A)
             /\ h[p].m = born.m
             /\ size % A = 0
             /\ size * 8 >= m
             /\ (size - A) * 8 < m
             /\ file.len = A + size
             /\ file.hdr.size = size /\ file.hdr.offset = A

\* a create with m = 32769 succeeded: one bit more than one alignment unit holds
C8_Witness ==
  \E p \in Procs :
    /\ h[p].bits /\ h[p].via = "create"
    /\ born.m = Some(32769)
    /\ h[p].size = Some(2 * get_alignment(host))

\* C9: a constructor call that finds no file and fails leaves no file.
C9_FailedCreateLeavesNoFile ==
  [][\A p \in Procs :
       (CtorEnds(p) /\ ~file.exists /\ out'[p].exc # "") => ~file'.exists]_vars

\* C10: idempotence.  While a process is inside an add of an item, or an
\* update of items, that an earlier add/update on this file already added,
\* none of its steps changes the bit array.
C10_Idempotent ==
  [][\A p \in Procs :
       ( \/ pc[p] \in {"add_r", "add_w"} /\ loc[p].item \in added
         \/ pc[p] \in {"upd_r", "upd_w"} /\ Range(loc[p].items) \subseteq added )
       => file'.data = file.data]_vars

\* an add of an item that was added before is about to store a byte
C10_Witness ==
  \E p \in Procs :
    /\ pc[p] = "add_w" /\ loc[p].item \in added
    /\ file.data # {}

\* C3: a bit of the data region that is 1 is still 1 after every step of
\* every process.
C3_BitsNeverUnset ==
  [][file.data \subseteq file'.data]_vars

\* what test/contains answers for an item on a handle opened read-only now
Lookup(item) ==
  LET r == BloomFilter_init(NewSelf([NoArgs EXCEPT !.readonly = TRUE], host),
                            [NoArgs EXCEPT !.readonly = TRUE], file.exists, file, host, "none")
  IN  IF r.out.exc # "" THEN r.out ELSE contains(r.self, file, item, host)

\* C2: when a load run over several workers has completed and synced,
\* contains is true for every item a worker accepted.
C2_LoadKeepsAccepted ==
  (load.lpc = "done" /\ ~file.dirty)
    => \A it \in load.accepted : Lookup(it) = Return("True")

\* add called on each item of a sequence in turn: the data region it leaves
RECURSIVE AddEach(_, _, _, _)
AddEach(self, f, items, hst) ==
  IF items = <<>> THEN f.data
  ELSE AddEach(self, [f EXCEPT !.data = BloomFilter_add(self, f, Head(items), hst).data],
               Tail(items), hst)

\* C11: from the same bit array, update(items) and add on each item in turn
\* leave the same bit array and the same answers of contains for every item.
C11_UpdateIsAddEach ==
  pc[0] = "ready" =>
    \A items \in Chunks :
      LET u == BloomFilter_update(h[0], file, items, host).data
          a == AddEach(h[0], file, items, host)
      IN  /\ u = a
          /\ \A it \in Items :
               contains(h[0], [file EXCEPT !.data = u], it, host)
                 = contains(h[0], [file EXCEPT !.data = a], it, host)

\* an open writable handle on a filter with bits set, where an update of two
\* different items sets more
C11_Witness ==
  /\ pc[0] = "ready" /\ h[0].bits /\ ~h[0].readonly
  /\ file.data # {}
  /\ \E items \in Chunks :
       /\ Len(items) = 2 /\ items[1] # items[2]
       /\ BloomFilter_update(h[0], file, items, host).data # file.data
       /\ BloomFilter_update(h[0], file, <<items[1]>>, host).data
            # BloomFilter_update(h[0], file, items, host).data

\* the data region after the updates of a set of chunks, applied in one
\* fixed order
RECURSIVE UpdateEach(_, _, _, _)
UpdateEach(self, f, chunks, hst) ==
  IF chunks = {} THEN f.data
  ELSE LET last == CHOOSE c \in chunks : TRUE
           d == UpdateEach(self, f, chunks \ {last}, hst)
       IN  BloomFilter_update(self, [f EXCEPT !.data = d], last, hst).data

\* C12: whatever the order in which the updates of a set of chunks were
\* applied, the bit array is the one a fixed order of the same chunks yields.
C12_ChunkOrderIrrelevant ==
  pc[0] = "ready" =>
    file.data = UpdateEach(h[0], [file EXCEPT !.data = load.before], load.applied, host)

\* two chunks were applied that set different bits of one byte
C12_Witness ==
  /\ pc[0] = "ready" /\ h[0].bits
  /\ \E c1 \in load.applied, c2 \in load.applied :
       LET f0 == [file EXCEPT !.data = load.before]
           d1 == BloomFilter_update(h[0], f0, c1, host).data \ load.before
           d2 == BloomFilter_update(h[0], f0, c2, host).data \ load.before
       IN  /\ d1 # {} /\ d2 # {} /\ d1 \cap d2 = {}
           /\ \E x \in d1, y \in d2 : x \div 8 = y \div 8
           /\ file.data = load.before \cup d1 \cup d2

\* the indexer of an open handle yields, for the item, exactly k positions,
\* all in [0, m), and under the fast scheme the i-th (from 0) is
\* (h1 + i*h2) mod m with h1 = hash(item, seed 0), h2 = hash(item, seed h1)
IndexerYields(self, item, hst) ==
  LET hs == get_hashes(self, item, hst)
      h1 == Mmh3(item, 0)
      h2 == Mmh3(item, h1)
  IN  /\ hs.exc = ""
      /\ Len(hs.seq) = self.k[1]
      /\ \A i \in DOMAIN hs.seq : 0 <= hs.seq[i] /\ hs.seq[i] < self.m[1]
      /\ self.hash_func_name = FAST_HASH_FUNC =>
           \A i \in DOMAIN hs.seq : hs.seq[i] = (h1 + (i - 1) * h2) % self.m[1]

\* C13 as stated: for every item, m > 0 and k > 0, under both schemes.
C13_IndexerYieldsK ==
  (pc[0] = "ready" /\ h[0].bits) =>
    \A item \in Items : IndexerYields(h[0], item, host)

\* C13, amended: under the md5 scheme, and under the fast scheme where mmh3
\* is installed; a fast-scheme handle without mmh3 raises and yields nothing.
C13_IndexerYieldsKAmended ==
  (pc[0] = "ready" /\ h[0].bits) =>
    \A item \in Items :
      IF h[0].hash_func_name = FAST_HASH_FUNC /\ ~host.murmur
        THEN get_hashes(h[0], item, host) = [exc |-> "RuntimeError", seq |-> <<>>]
        ELSE IndexerYields(h[0], item, host)

\* an open fast-scheme handle with k = 2 and m below the hash values, on a
\* host with mmh3, after an add
C13_Witness ==
  /\ pc[0] = "ready" /\ h[0].bits
  /\ h[0].hash_func_name = FAST_HASH_FUNC /\ host.murmur
  /\ h[0].k = Some(2) /\ h[0].m = Some(12)
  /\ added # {}

\* the handle another process gets when it opens the file with no arguments
FreshHandle(f, hst) == BloomFilter_open(NewSelf(NoArgs, hst), f, hst).self

\* C14: every open handle on the file, whatever hash_func_name its
\* constructor was given, has the scheme the header names and computes for
\* each item the positions any other handle on the file computes.
C14_SchemeFixedPerFile ==
  (pc[0] = "ready" /\ h[0].bits) =>
    /\ file.hdr.hash_func_name \in NameSet => h[0].hash_func_name = file.hdr.hash_func_name
    /\ \A item \in Items :
         get_hashes(h[0], item, host) = get_hashes(FreshHandle(file, host), item, host)

\* a handle opened after an earlier handle wrote, synced and closed finds the
\* item the earlier handle added
C14_Witness ==
  /\ pc[0] = "ready" /\ h[0].bits /\ h[0].via = "open"
  /\ trail = "reopened"
  /\ out[0] = Return("True")

\* C15: add and update on a read-only handle end with PermissionError at
\* once: the file and the object are unchanged, and contains answers on the
\* handle as it did before.
C15_ReadonlyRejectsWrites ==
  [][(h[0].readonly /\ ((\E item \in Items : AddBegin(0, item))
                          \/ (\E items \in Chunks : UpdateBegin(0, items))))
       => /\ out'[0] = Raise("PermissionError", "read_only")
          /\ file' = file /\ h' = h /\ pc'[0] = "ready"
          /\ \A it \in Items : contains(h'[0], file', it, host) = contains(h[0], file, it, host)
          /\ h[0].bits => \A it \in Items : contains(h'[0], file', it, host).exc = ""]_vars

\* a read-only handle on a filter with bits set whose last call, an add or an
\* update, ended with PermissionError
C15_Witness ==
  /\ pc[0] = "ready" /\ h[0].readonly /\ h[0].bits
  /\ out[0] = Raise("PermissionError", "read_only")
  /\ file.data # {}

\* process 0 holds an object it has closed
Closed(p) == pc[p] = "ready" /\ ~h[p].bits

\* process 0 calls add or update
Writes(p) ==
  \/ \E item \in Items : AddBegin(p, item)
  \/ \E items \in Chunks : UpdateBegin(p, items)

\* C16 as stated: after close, every add, update and contains on the handle
\* ends with the not-mapped RuntimeError and changes no bit.
C16_ClosedRaisesMapUnavailable ==
  [][(Closed(0) /\ (Writes(0) \/ \E item \in Items : Contains(0, item)))
       => /\ out'[0] = Raise("RuntimeError", "not_mapped")
          /\ file' = file]_vars

\* C16, amended: so do contains on every closed handle and add and update on
\* a closed writable handle; add and update on a closed read-only handle end
\* with PermissionError.  No call gives an answer or changes a bit.
C16_ClosedRaisesAmended ==
  [][(Closed(0) /\ (Writes(0) \/ \E item \in Items : Contains(0, item)))
       => /\ out'[0] = IF h[0].readonly /\ Writes(0)
                         THEN Raise("PermissionError", "read_only")
                         ELSE Raise("RuntimeError", "not_mapped")
          /\ file' = file]_vars

\* a closed handle on a filter with bits set whose last call ended with the
\* not-mapped RuntimeError
C16_Witness ==
  /\ Closed(0)
  /\ out[0] = Raise("RuntimeError", "not_mapped")
  /\ file.data # {}

\* the positions of the item under the scheme of the handle
ItemPositions(self, item, hst) ==
  Range(get_hashes(self, item, [hst EXCEPT !.murmur = TRUE]).seq)

\* C17: contains on an open handle answers true if and only if every position
\* of the item is a 1 bit of the data region, and changes nothing in the file.
C17_ContainsIffAllSet ==
  [][\A item \in Items :
       (pc[0] = "ready" /\ h[0].bits /\ Contains(0, item))
         => /\ file' = file
            /\ out'[0].ret = "True"
                 <=> \A p \in ItemPositions(h[0], item, host) :
                       p \div 8 < h[0].size[1] /\ p \in file.data]_vars

\* the create-or-open of the load command cannot succeed: the file is there
\* but corrupt or cut short, or it is not there and m or k is missing, or an
\* argument differs from the header
InitMustFail ==
  \/ loc[0].file_exists /\ ~Openable(file, host)
  \/ ~loc[0].file_exists /\ (loc[0].args.m = None \/ loc[0].args.k = None)
  \/ loc[0].file_exists /\ Openable(file, host) /\ C4_Differs(loc[0].args, file.hdr)

C19_DoneOnlyAfterSync ==
  load.lpc = "done" =>
    /\ load.chunks = <<>> /\ load.inbox = <<>>
    /\ \A w \in 1..NWorkers : load.task[w].stage = "idle"
    /\ load.chunks_submitted = Len(read_chunks(load.input.lines, ChunkSize))
    /\ load.synced
    /\ ~file.dirty

\* C20: when the input file does not exist no worker gets a chunk, the data
\* region stays what it was when the command began, the command never goes on
\* to its final sync and completion, and once the pool asks for the first
\* chunk the run ends in Failed.
C20_MissingInputAborts ==
  [][load.input.missing
       => /\ \A w \in 1..NWorkers : load'.task[w].stage = "idle"
          /\ load'.accepted = {} /\ load'.chunks_submitted = 0
          /\ file'.data = load.before
          /\ load'.lpc \in {"init", "opened", "reject", "running", "failed"}
          /\ load.lpc = "running" => load'.lpc = "failed"]_vars

\* the filter was created or opened, then the run failed on the missing input
C20_Witness ==
  /\ load.input.missing
  /\ load.lpc = "failed" /\ load.actual # NoArgs
  /\ file.exists /\ file.data = load.before

\* ---- C21 ----
\* A task that fails hands back 0 and leaves the other tasks, the chunks still
\* to hand out and the command's position alone; once the results are
\* exhausted every chunk has come back and the total is the valid lines of the
\* chunks that did not fail; and a run in which a task failed gets to step 3.
PastPool == load.lpc \in {"final", "final_ctor", "final_sync", "final_close", "done"}

ValidLines == Len(ItemsToUpdate(load.input.lines, load.args.sha1, load.args.lower))

TaskFailed(w) ==
  /\ load.task[w].stage \in {"updating", "raised"}
  /\ load.task[w].stage = "raised" \/ out[w].exc # ""

C21_WorkerFailureIsolated ==
  /\ [][\A w \in 1..NWorkers :
          (TaskFailed(w) /\ load'.task[w].stage = "idle") =>
            /\ load'.inbox = Append(load.inbox, 0)
            /\ load'.lpc = load.lpc /\ load'.chunks = load.chunks
            /\ load'.total_processed_count = load.total_processed_count
            /\ \A v \in 1..NWorkers \ {w} : load'.task[v] = load.task[v]]_vars
  /\ [](PastPool =>
          /\ load.chunks_submitted = Len(read_chunks(load.input.lines, ChunkSize))
          /\ load.total_processed_count + load.lost = ValidLines)
  /\ ((\E w \in 1..NWorkers : TaskFailed(w)) ~> PastPool)

C21_Witness ==
  /\ load.lpc = "done" /\ load.synced
  /\ load.lost > 0 /\ load.total_processed_count > 0

\* ---- C22 ----
\* the data region one run of the command leaves when every update of it
\* takes effect
WholeRun ==
  LET f0 == [file EXCEPT !.data = load.before]
  IN  BloomFilter_update(FreshHandle(f0, host), f0,
                         ItemsToUpdate(load.input.lines, load.args.sha1, load.args.lower),
                         host).data

\* C22: a rerun of load on the same input, after the first run was killed or
\* had completed, never clears a bit the first run set, ends with the bit
\* array of one uninterrupted run, and changes no bit when the first run was
\* complete.
C22_ResumeIdempotent ==
  load.run = 2 =>
    /\ load.mid \subseteq file.data
    /\ load.lpc = "done" => file.data = WholeRun
    /\ load.whole => file.data = load.mid

\* C22, its second part alone: the rerun never clears a bit of the first run
C22_RerunKeepsBits == load.run = 2 => load.mid \subseteq file.data

\* ---- C23 ----
\* two rates agree to 1/10000
Agree(a, b) == a.lo <= b.hi + 1 /\ b.lo <= a.hi + 1

\* C23: info on a filter of m = 9,585,058 bits and k = 14, asked for
\* n = 850,000,000, reports a rate that agrees to 1/10000 with
\* (1 - e^(-k*n/m))^k.
C23_InfoRateAgrees ==
  (/\ load.report.kind = "p"
   /\ h[0].m = Some(9585058) /\ h[0].k = Some(14) /\ load.estimated_n = Some(850000000))
    => Agree(load.report, PowOneMinusExp(9585058, 14, 850000000))

\* ---- C24 ----
\* C24: when the workers are done and one store has cleared a bit, every item
\* an update accepted, other than the item whose stored bit was cleared, is
\* found by contains.
C24_DamageConfined ==
  ((\A w \in 1..NWorkers : pc[w] = "ready") /\ load.drops = 1)
    => \A it \in added \ load.victims : Lookup(it) = Return("True")

\* ---- C25 ----
\* the digest of round i: md5 of the item, then md5 of the digest before
RECURSIVE Md5Round(_, _)
Md5Round(item, i) ==
  IF i = 0 THEN Md5OfItem(item) ELSE Md5OfDigest(Md5Round(item, i - 1))

C26_HeaderAndLengthFrame ==
  [][file.exists =>
       /\ file'.exists
       /\ file'.hdr = file.hdr /\ file'.linelen = file.linelen
       /\ file'.len = file.len /\ file'.origin = file.origin
       /\ \A b \in (file'.data \ file.data) \cup (file.data \ file'.data) :
            \E p \in Procs : h[p].size # None /\ 0 <= b /\ b < 8 * h[p].size[1]]_vars

\* a filter made by create, written, synced, closed and opened again
C26_Witness ==
  /\ file.exists /\ file.origin = "create"
  /\ trail = "reopened" /\ file.data # {}
  /\ pc[0] = "ready"

\* ---- C27 ----
RECURSIVE Concat(_)
Concat(chunks) == IF chunks = <<>> THEN <<>> ELSE Head(chunks) \o Concat(Tail(chunks))

\* the chunks are non-empty, all but the last of chunk_size lines, the last of
\* at most chunk_size, and together they are the lines in order
Partitions(chunks, lines, chunk_size) ==
  /\ Concat(chunks) = lines
  /\ \A i \in 1..Len(chunks) :
       /\ chunks[i] # <<>>
       /\ Len(chunks[i]) <= chunk_size
       /\ i < Len(chunks) => Len(chunks[i]) = chunk_size

\* C27: read_chunks cuts the lines of the input, for every chunk size, into
\* such chunks; the chunks handed to workers so far followed by those still
\* to hand out are these chunks, each handed out once; and when the results
\* are exhausted every chunk was handed out and has come back.
C27_EveryLineOnce ==
  (load.lpc \in {"running", "final", "final_ctor", "final_sync", "final_close", "done"}
     /\ ~load.input.missing) =>
    /\ \A cs \in 1..MaxLines :
         Partitions(read_chunks(load.input.lines, cs), load.input.lines, cs)
    /\ load.handed \o load.chunks = read_chunks(load.input.lines, ChunkSize)
    /\ PastPool => (load.chunks = <<>> /\ load.chunks_submitted = Len(load.handed))

\* a run over an input of two different chunks has handed out both
C27_Witness ==
  /\ load.lpc = "done"
  /\ Len(load.handed) >= 2 /\ load.handed[1] # load.handed[2]
  /\ load.total_processed_count >= 2

\* ---- C28 ----
\* C28: on a filter made by create in this run of one process, no bit at a
\* position >= m is ever 1, and whenever no call is under way the 1 bits are
\* exactly the positions of the items whose add or update has returned.
C28_BitsAreExactlyTheAdded ==
  (file.exists /\ file.origin = "create" /\ file.hdr.kind = "ok") =>
    /\ \A b \in file.data : 0 <= b /\ b < file.hdr.m
    /\ pc[0] \in {"ready", "none"} =>
         file.data = UNION {ItemPositions(FreshHandle(file, host), it, host) : it \in added}

\* a created filter whose m leaves padding bits, after add and update of two
\* items
C28_Witness ==
  /\ file.exists /\ file.origin = "create" /\ file.hdr.kind = "ok"
  /\ file.hdr.m % 8 # 0
  /\ pc[0] = "ready" /\ added = Items
  /\ Cardinality(file.data) >= 2

\* ---- C29 ----
\* how many of the items (with repetitions) contains finds in the file
RECURSIVE CountFound(_)
CountFound(items) ==
  IF items = <<>> THEN 0
  ELSE (IF Lookup(Head(items)) = Return("True") THEN 1 ELSE 0) + CountFound(Tail(items))

\* C29: when a load run is done, the total it reports is at most the number
\* of valid input lines whose item has every one of its k bits set in the
\* filter.
C29_CountNeverOverReports ==
  load.lpc = "done" =>
    load.total_processed_count
      <= CountFound(ItemsToUpdate(load.input.lines, load.args.sha1, load.args.lower))

\* ---- C30 ----
\* C30: the end of a read-write constructor of any process, whenever its
\* existence check was made, leaves a file that exists and has 1 bits as it
\* is: same bits, same length, same header.
C30_CtorKeepsExistingFilter ==
  [][\A p \in 1..NWorkers :
       (pc[p] = "ctor" /\ pc'[p] # "ctor" /\ file.exists /\ file.data # {})
         => (file'.data = file.data /\ file'.len = file.len /\ file'.hdr = file.hdr)]_vars

====
